---- MODULE Spec2Model ----
(***************************************************************************)
(* A model of the risk engine of Stock_Analysis_5LensFramework:            *)
(*   src/risk_metrics.py  RiskMetricsCalculator                             *)
(*   src/data_fetcher.py  DataFetcher.calculate_beta                        *)
(*                                                                         *)
(* Numbers.  Python floats are modelled as exact values:                   *)
(*   [k |-> "num", n, d, u]  the rational n/d (d > 0, lowest terms) times   *)
(*                           the unit u: "one" is 1, "ln2" is ln 2          *)
(*   [k |-> "sqrt", n, d]    the square root of the rational n/d > 0        *)
(*   [k |-> "real", f]       a finite real computed by formula f whose      *)
(*                           value is irrational and is not tracked         *)
(*   [k |-> "nan"]           the float NaN                                  *)
(*   [k |-> "None"]          Python's None                                  *)
(*   [k |-> "raise", exc]    the call raised exc                            *)
(* Prices are powers of two, so that a simple return is a multiple of      *)
(* 1/RetScale and a log return is an integer multiple of ln 2.             *)
(***************************************************************************)
EXTENDS Integers, Sequences, FiniteSets, TLC

VARIABLES price_history, market_data, returns, call, result, page, heap

vars == <<price_history, market_data, returns, call, result, page, heap>>

(***************************************************************************)
(* Bounds of the model and constants of the program                        *)
(***************************************************************************)
MaxLen == 32

MIN_PRICES_BETA_OffByOne == 20 + 1

MIN_PRICES_BETA == 20

MIN_RETURNS_BETA == 2

MIN_ALIGNED_POINTS == 30

BETA_DECIMALS == 4

(***************************************************************************)
(* Exact arithmetic                                                        *)
(***************************************************************************)
Abs(x) == IF x < 0 THEN -x ELSE x

Min(a, b) == IF a <= b THEN a ELSE b

RECURSIVE GCD(_, _)
GCD(a, b) == IF b = 0 THEN a ELSE GCD(b, a % b)

RECURSIVE Pow10(_)
Pow10(k) == IF k = 0 THEN 1 ELSE 10 * Pow10(k - 1)

\* the rational n/d times unit u, in lowest terms with a positive denominator
QU(n, d, u) ==
    LET g == GCD(Abs(n), Abs(d))
        s == IF d < 0 THEN -1 ELSE 1
    IN  [k |-> "num", n |-> s * (n \div g), d |-> s * (d \div g), u |-> u]

Q(n, d) == QU(n, d, "one")

NaN == [k |-> "nan"]

NoneValue == [k |-> "None"]

Raised(exc) == [k |-> "raise", exc |-> exc]

Real(f) == [k |-> "real", f |-> f]

IsNum(v) == v.k = "num"

IsNaN(v) == v.k = "nan"

\* np.isnan(x) or np.isinf(x) false, for a float x
IsFinite(v) == v.k \in {"num", "sqrt", "real"}

\* a / b for rationals of one unit, b # 0; cancels crosswise before multiplying
RatDiv(a, b) ==
    LET g1 == GCD(Abs(a.n), Abs(b.n))
        g2 == GCD(a.d, b.d)
    IN  Q((a.n \div g1) * (b.d \div g2), (a.d \div g2) * (b.n \div g1))

RECURSIVE LongDiv(_, _, _, _)
\* k more decimal digits of r/d appended to the integer acc: <<digits, remainder>>
LongDiv(acc, r, d, k) ==
    IF k = 0 THEN <<acc, r>>
    ELSE LongDiv(acc * 10 + ((r * 10) \div d), (r * 10) % d, d, k - 1)

\* Python round(x, ndigits) on a float: round half to even
Round(x, ndigits) ==
    LET a  == Abs(x.n)
        qr == LongDiv(a \div x.d, a % x.d, x.d, ndigits)
        m  == qr[1]
        r  == qr[2]
        up == IF 2 * r > x.d THEN 1 ELSE IF 2 * r = x.d THEN m % 2 ELSE 0
        sg == IF x.n < 0 THEN -1 ELSE 1
    IN  Q(sg * (m + up), Pow10(ndigits))

RECURSIVE SumTo(_, _)
SumTo(s, i) == IF i = 0 THEN 0 ELSE s[i] + SumTo(s, i - 1)

\* the sum of a sequence of integers
Sum(s) == SumTo(s, Len(s))

Prod(x, y) == [i \in 1..Len(x) |-> x[i] * y[i]]

\* n times the sum of cross deviations: n*sum((x-mean x)(y-mean y))
CrossDev(x, y) == Len(x) * Sum(Prod(x, y)) - Sum(x) * Sum(y)

(***************************************************************************)
(* pandas Series of closing prices: a timezone and rows (local day, price) *)
(***************************************************************************)
Patterns == {<<2>>, <<2, 4>>, <<4, 2>>, <<1, 8>>, <<1, 2, 4, 2>>}

Prices == {1, 2, 4, 8}

\* every simple return between two prices is a multiple of 1/RetScale
RetScale == CHOOSE m \in Prices : \A p \in Prices : m % p = 0

\* UTC offsets in minutes: Asia/Kolkata and America/New_York (standard time)
Timezones == {330, -300}

Lens == {0, 1, 2} \cup ((MIN_PRICES_BETA - 1)..MaxLen)

NoSeries == [kind |-> "None"]

MkSeries(len, pat, start, tz) ==
    [kind |-> "Series", tz |-> tz,
     rows |-> [i \in 1..len |->
                 [d |-> start + i - 1, p |-> pat[((i - 1) % Len(pat)) + 1]]]]

IsNone(s) == s.kind = "None"

\* len(series)
Length(s) == Len(s.rows)

\* the absolute instant (minutes) of local midnight of day d at offset tz
Instant(d, tz) == d * 1440 - tz

\* series.iloc[-k:]; note that iloc[-0:] is the whole series
IlocTail(s, k) ==
    IF k = 0 \/ k >= Len(s) THEN s ELSE SubSeq(s, Len(s) - k + 1, Len(s))

\* series.pct_change(): same index, first value NaN; values in units of 1/RetScale
pct_change(s) ==
    [i \in 1..Len(s.rows) |->
        [t   |-> Instant(s.rows[i].d, s.tz),
         nan |-> i = 1,
         v   |-> IF i = 1 THEN 0
                 ELSE ((s.rows[i].p - s.rows[i - 1].p) * RetScale) \div s.rows[i - 1].p]]

dropna_FillZero(col) == col

\* .dropna() on one column
dropna(col) == SelectSeq(col, LAMBDA c : ~c.nan)

\* .values
Values(col) == [i \in 1..Len(col) |-> col[i].v]

\* pd.concat([a, b], axis=1, join="inner"): rows whose index labels are equal;
\* tz-aware labels are equal when they are the same instant
concat_inner(a, b) ==
    LET keep   == SelectSeq(a, LAMBDA x : \E j \in 1..Len(b) : b[j].t = x.t)
        at(t)  == CHOOSE j \in 1..Len(b) : b[j].t = t
    IN  [i \in 1..Len(keep) |->
           [t |-> keep[i].t, stock |-> keep[i], market |-> b[at(keep[i].t)]]]

\* DataFrame.dropna(): rows with a NaN in either column go
dropna_rows(df) == SelectSeq(df, LAMBDA r : ~r.stock.nan /\ ~r.market.nan)

(***************************************************************************)
(* numpy                                                                   *)
(***************************************************************************)
\* np.cov(x, y)[0, 1]: sample covariance, ddof = 1
np_cov(x, y) ==
    IF Len(x) < 2 THEN NaN
    ELSE Q(CrossDev(x, y), Len(x) * (Len(x) - 1))

\* np.var(y): population variance, ddof = 0
np_var(y) == IF Len(y) = 0 THEN NaN ELSE Q(CrossDev(y, y), Len(y) * Len(y))

(***************************************************************************)
(* DataFetcher.calculate_beta                                              *)
(***************************************************************************)
\* the aligned returns frame of data_fetcher.py:216-226
AlignedReturns(stock_data, market) ==
    dropna_rows(concat_inner(pct_change(stock_data), pct_change(market)))

\* the value returned when direct estimation is not possible (return None)
Unavailable == [val |-> NoneValue, via |-> "unavailable"]

OnException_Propagate == [val |-> Raised("Exception"), via |-> "raise"]

\* except Exception as e: ...; return None
OnException == Unavailable

\* stock_fetch is what yf.Ticker(symbol).history() did: "data", "None" or "raise";
\* market is what fetch_market_index returned.  The result is the value returned
\* and the tier that produced it.
DataFetcher_calculate_beta(stock_fetch, stock_data, market) ==
    IF stock_fetch = "raise" THEN OnException
    ELSE IF stock_fetch = "None" \/ Length(stock_data) = 0 THEN Unavailable
    ELSE IF IsNone(market) THEN Unavailable
    ELSE IF Length(market) = 0 THEN Unavailable
    ELSE
      LET rets == AlignedReturns(stock_data, market)
          s    == [i \in 1..Len(rets) |-> rets[i].stock.v]
          m    == [i \in 1..Len(rets) |-> rets[i].market.v]
      IN  IF Len(rets) < MIN_ALIGNED_POINTS THEN Unavailable
          ELSE
            LET cov == np_cov(s, m)
                var == np_var(m)
            IN  IF var.n = 0 THEN Unavailable
                ELSE
                  LET beta_rounded == Round(RatDiv(cov, var), BETA_DECIMALS)
                  IN  IF ~IsFinite(beta_rounded) THEN Unavailable
                      ELSE [val |-> beta_rounded, via |-> "direct"]

(***************************************************************************)
(* RiskMetricsCalculator.calculate_beta                                    *)
(***************************************************************************)
\* A call frame: the objects that exist (heap) and the object each local name is
\* bound to.  The two parameters are bound to the caller's objects, 1 and 2.
NewFrame(stock_prices, market_prices) ==
    [heap  |-> <<stock_prices, market_prices>>,
     names |-> [stock_prices |-> 1, market_prices |-> 2]]

Deref(f, name) == f.heap[f.names[name]]

Assign_InPlace(f, name, value) == [f EXCEPT !.heap[f.names[name]] = value]

\* name = value: value is a new object and the name is bound to it; the object
\* the name was bound to is not touched
Assign(f, name, value) ==
    [heap  |-> Append(f.heap, value),
     names |-> [f.names EXCEPT ![name] = Len(f.heap) + 1]]

\* the frame of calculate_beta after its two truncations (risk_metrics.py:366-368)
BetaFrame(stock_prices, market_prices) ==
    LET f0 == NewFrame(stock_prices, market_prices)
        min_len == Min(Length(stock_prices), Length(market_prices))
        f1 == Assign(f0, "stock_prices",
                     [Deref(f0, "stock_prices") EXCEPT !.rows = IlocTail(@, min_len)])
    IN  Assign(f1, "market_prices",
               [Deref(f1, "market_prices") EXCEPT !.rows = IlocTail(@, min_len)])

\* the two return arrays of risk_metrics.py:365-377, aligned by position
PositionalReturns(stock_prices, market_prices) ==
    LET f  == BetaFrame(stock_prices, market_prices)
        sp == Deref(f, "stock_prices")
        mp == Deref(f, "market_prices")
        sr == dropna(pct_change(sp))
        mr == dropna(pct_change(mp))
        min_ret_len == Min(Len(sr), Len(mr))
    IN  [stock |-> IlocTail(sr, min_ret_len), market |-> IlocTail(mr, min_ret_len)]

RiskMetricsCalculator_calculate_beta(stock_prices, market_prices) ==
    LET default == [val |-> Q(1, 1), via |-> "default"] IN
    IF IsNone(stock_prices) \/ IsNone(market_prices)
    THEN [val |-> Raised("TypeError"), via |-> "raise"]
    ELSE IF Length(stock_prices) < MIN_PRICES_BETA
            \/ Length(market_prices) < MIN_PRICES_BETA
    THEN default
    ELSE
      LET r == PositionalReturns(stock_prices, market_prices)
          stock_returns  == Values(r.stock)
          market_returns == Values(r.market)
      IN  IF Len(stock_returns) < MIN_RETURNS_BETA
             \/ Len(market_returns) < MIN_RETURNS_BETA
          THEN default
          ELSE
            LET covariance      == np_cov(stock_returns, market_returns)
                market_variance == np_var(market_returns)
            IN  IF market_variance.n = 0 THEN default
                ELSE [val |-> RatDiv(covariance, market_variance), via |-> "direct"]

\* the caller's two series as calculate_beta leaves them
ArgumentsAfter_calculate_beta(stock_prices, market_prices) ==
    IF IsNone(stock_prices) \/ IsNone(market_prices) THEN <<stock_prices, market_prices>>
    ELSE IF Length(stock_prices) < MIN_PRICES_BETA
            \/ Length(market_prices) < MIN_PRICES_BETA
    THEN <<stock_prices, market_prices>>
    ELSE LET f == BetaFrame(stock_prices, market_prices) IN <<f.heap[1], f.heap[2]>>

(***************************************************************************)
(* Arrays of returns (np.ndarray): element i is v[i]/den times the unit u  *)
(***************************************************************************)
Array(u, den, v) == [u |-> u, den |-> den, v |-> v]

Size(a) == Len(a.v)

Range(s) == {s[i] : i \in 1..Len(s)}

\* the elements in ascending order
Sorted(s) ==
    [k \in 1..Len(s) |->
        CHOOSE x \in Range(s) :
            /\ Cardinality({i \in 1..Len(s) : s[i] < x}) < k
            /\ k <= Cardinality({i \in 1..Len(s) : s[i] <= x})]

Minimum(s) == CHOOSE x \in Range(s) : \A y \in Range(s) : x <= y

\* np.mean(a): NaN for an empty array
np_mean(a) == IF Size(a) = 0 THEN NaN ELSE QU(Sum(a.v), Size(a) * a.den, a.u)

\* n^2 times the population variance, in units of (1/den)^2: zero iff np.std is 0
Dev2(a) == CrossDev(a.v, a.v)

\* np.percentile(a, (1 - confidence) * 100), linear interpolation between the two
\* order statistics around position (1 - confidence) * (n - 1)
np_percentile(a, confidence) ==
    LET srt  == Sorted(a.v)
        pos  == (confidence.d - confidence.n) * (Size(a) - 1)
        lo   == pos \div confidence.d
        rem  == pos % confidence.d
        hi   == IF lo + 2 <= Size(a) THEN lo + 2 ELSE Size(a)
    IN  QU(srt[lo + 1] * confidence.d + rem * (srt[hi] - srt[lo + 1]),
           a.den * confidence.d, a.u)

AtOrBelow_UpperTail(a, x) ==
    Array(a.u, a.den, SelectSeq(a.v, LAMBDA r : r * x.d >= x.n * a.den))

\* returns[returns <= x] for a value x of the array's unit
AtOrBelow(a, x) ==
    Array(a.u, a.den, SelectSeq(a.v, LAMBDA r : r * x.d <= x.n * a.den))

\* returns[returns < 0]
Negative(a) == Array(a.u, a.den, SelectSeq(a.v, LAMBDA r : r < 0))

\* the exponent of a price that is a power of two
Log2(p) == CHOOSE e \in 0..Cardinality(Prices) : 2 ^ e = p

(***************************************************************************)
(* RiskMetricsCalculator: the metrics                                      *)
(***************************************************************************)
RISK_FREE_RATE == [n |-> 6, d |-> 100]

CONFIDENCE_95 == [n |-> 95, d |-> 100]

CONFIDENCE_99 == [n |-> 99, d |-> 100]

MIN_TAIL_OBSERVATIONS == 10

\* sqrt(x) of a rational x >= 0
Sqrt(n, d) ==
    IF n = 0 THEN Q(0, 1)
    ELSE LET g == GCD(Abs(n), Abs(d)) IN [k |-> "sqrt", n |-> n \div g, d |-> d \div g]

calculate_volatility_LastPeriods(prices, periods) ==
    IF Length(prices) < 2 THEN Q(0, 1)
    ELSE
      LET rets == Values(IlocTail(dropna(pct_change(prices)), periods))
          n    == Len(rets)
      IN  IF n = 0 THEN Q(0, 1)
          ELSE IF n = 1 THEN NaN
          ELSE Sqrt(periods * (CrossDev(rets, rets) \div GCD(CrossDev(rets, rets), n * (n - 1))),
                    ((n * (n - 1)) \div GCD(CrossDev(rets, rets), n * (n - 1)))
                       * RetScale * RetScale)

\* pandas Series.std() of the simple returns (ddof = 1) times sqrt(periods)
calculate_volatility(prices, periods) ==
    IF Length(prices) < 2 THEN Q(0, 1)
    ELSE
      LET rets == Values(dropna(pct_change(prices)))
          n    == Len(rets)
      IN  IF n = 0 THEN Q(0, 1)
          ELSE IF n = 1 THEN NaN      \* std of one value with ddof = 1 is 0/0
          ELSE Sqrt(periods * (CrossDev(rets, rets) \div GCD(CrossDev(rets, rets), n * (n - 1))),
                    ((n * (n - 1)) \div GCD(CrossDev(rets, rets), n * (n - 1)))
                       * RetScale * RetScale)

\* np.log(series / series.shift(1)): same index, first value NaN; values in
\* units of ln 2
log_ratio(s) ==
    [i \in 1..Len(s.rows) |->
        [t   |-> Instant(s.rows[i].d, s.tz),
         nan |-> i = 1,
         v   |-> IF i = 1 THEN 0 ELSE Log2(s.rows[i].p) - Log2(s.rows[i - 1].p)]]

calculate_returns(prices, method) ==
    IF Length(prices) < 2 THEN Array("one", 1, <<>>)
    ELSE IF method = "log"
    THEN Array("ln2", 1, Values(dropna(log_ratio(prices))))
    ELSE Array("one", RetScale, Values(dropna(pct_change(prices))))

calculate_var_ParametricUnguarded(rets, confidence, method, lib) ==
    IF method = "parametric" THEN Real("parametric")
    ELSE IF Size(rets) < MIN_TAIL_OBSERVATIONS THEN Q(-5, 100)
    ELSE IF method = "cornish-fisher"
    THEN IF Dev2(rets) = 0 /\ lib = "nan" THEN NaN ELSE Real("cornish-fisher")
    ELSE np_percentile(rets, confidence)

\* lib is the installed scipy's answer for the skewness and kurtosis of data with
\* zero variance: NaN (scipy >= 1.9) or 0.0 and -3.0 (older)
calculate_var(rets, confidence, method, lib) ==
    IF Size(rets) < MIN_TAIL_OBSERVATIONS THEN Q(-5, 100)
    ELSE IF method = "parametric" THEN Real("parametric")
    ELSE IF method = "cornish-fisher"
    THEN IF Dev2(rets) = 0 /\ lib = "nan" THEN NaN ELSE Real("cornish-fisher")
    ELSE np_percentile(rets, confidence)

\* the tail returns[returns <= var] of calculate_cvar
TailReturns(rets, confidence) ==
    AtOrBelow(rets, calculate_var(rets, confidence, "historical", "nan"))

calculate_cvar(rets, confidence) ==
    IF Size(rets) < MIN_TAIL_OBSERVATIONS THEN Q(-8, 100)
    ELSE
      LET var  == calculate_var(rets, confidence, "historical", "nan")
          cvar == np_mean(TailReturns(rets, confidence))
      IN  IF IsNaN(cvar) THEN var ELSE cvar

calculate_sharpe_ratio(rets, risk_free_rate, periods) ==
    IF Size(rets) < 2 THEN Q(0, 1)
    ELSE IF Dev2(rets) = 0 THEN Q(0, 1)
    ELSE Real("sharpe")

calculate_sortino_ratio_TotalVolatility(rets, risk_free_rate, periods) ==
    IF Size(rets) < 2 THEN Q(0, 1)
    ELSE IF Dev2(rets) = 0 THEN Q(0, 1) ELSE Real("sortino")

calculate_sortino_ratio(rets, risk_free_rate, periods) ==
    IF Size(rets) < 2 THEN Q(0, 1)
    ELSE
      LET downside_returns == Negative(rets)
          downside_zero == Size(downside_returns) = 0 \/ Dev2(downside_returns) = 0
      IN  IF downside_zero THEN Q(0, 1) ELSE Real("sortino")

Drawdown_GlobalPeak(prices) ==
    LET p(i) == prices.rows[i].p
        peak == CHOOSE m \in {p(j) : j \in 1..Length(prices)} :
                    \A j \in 1..Length(prices) : p(j) <= m
    IN  [i \in 1..Length(prices) |-> ((p(i) - peak) * RetScale) \div peak]

\* drawdown from the running peak at every point, in units of 1/RetScale
Drawdown(prices) ==
    LET p(i) == prices.rows[i].p
        cum_max(i) == CHOOSE m \in {p(j) : j \in 1..i} : \A j \in 1..i : p(j) <= m
    IN  [i \in 1..Length(prices) |-> ((p(i) - cum_max(i)) * RetScale) \div cum_max(i)]

Maximum(s) == CHOOSE x \in Range(s) : \A y \in Range(s) : y <= x

calculate_drawdown_MaxOfDrawdown(prices) ==
    IF Length(prices) < 2 THEN <<Q(0, 1), Q(0, 1)>>
    ELSE
      LET drawdown == Drawdown(prices)
          negative == SelectSeq(drawdown, LAMBDA x : x < 0)
          max_dd   == Q(Maximum(drawdown), RetScale)
          avg_dd   == IF Len(negative) > 0
                      THEN Q(Sum(negative), Len(negative) * RetScale)
                      ELSE Q(0, 1)
      IN  <<max_dd, avg_dd>>

calculate_drawdown_MeanOfAll(prices) ==
    IF Length(prices) < 2 THEN <<Q(0, 1), Q(0, 1)>>
    ELSE
      LET drawdown == Drawdown(prices)
          max_dd   == Q(Minimum(drawdown), RetScale)
          avg_dd   == Q(Sum(drawdown), Len(drawdown) * RetScale)
      IN  <<max_dd, avg_dd>>

calculate_drawdown(prices) ==
    IF Length(prices) < 2 THEN <<Q(0, 1), Q(0, 1)>>
    ELSE
      LET drawdown == Drawdown(prices)
          negative == SelectSeq(drawdown, LAMBDA x : x < 0)
          max_dd   == Q(Minimum(drawdown), RetScale)
          avg_dd   == IF Len(negative) > 0
                      THEN Q(Sum(negative), Len(negative) * RetScale)
                      ELSE Q(0, 1)
      IN  <<max_dd, avg_dd>>

calculate_calmar_ratio(rets, max_drawdown, periods) ==
    IF Size(rets) < 2 \/ max_drawdown.n = 0 THEN Q(0, 1)
    ELSE QU(Sum(rets.v) * periods * max_drawdown.d,
            Size(rets) * rets.den * Abs(max_drawdown.n), rets.u)

\* float(scipy.stats.skew(returns))
stats_skew(rets, lib) ==
    IF Dev2(rets) = 0 THEN (IF lib = "nan" THEN NaN ELSE Q(0, 1)) ELSE Real("skew")

\* float(scipy.stats.kurtosis(returns)), excess kurtosis
stats_kurtosis(rets, lib) ==
    IF Dev2(rets) = 0 THEN (IF lib = "nan" THEN NaN ELSE Q(-3, 1)) ELSE Real("kurtosis")

_get_default_metrics_NoInformationRatio ==
    [volatility_252d   |-> Q(25, 100),
     volatility_60d    |-> Q(25, 100),
     var_95            |-> Q(-5, 100),
     var_99            |-> Q(-8, 100),
     cvar_95           |-> Q(-8, 100),
     sharpe_ratio      |-> Q(5, 10),
     max_drawdown      |-> Q(-20, 100),
     avg_drawdown      |-> Q(-10, 100),
     beta              |-> Q(1, 1),
     sortino_ratio     |-> Q(7, 10),
     skewness          |-> Q(0, 1),
     kurtosis          |-> Q(0, 1),
     calmar_ratio      |-> Q(1, 1)]

_get_default_metrics ==
    [volatility_252d   |-> Q(25, 100),
     volatility_60d    |-> Q(25, 100),
     var_95            |-> Q(-5, 100),
     var_99            |-> Q(-8, 100),
     cvar_95           |-> Q(-8, 100),
     sharpe_ratio      |-> Q(5, 10),
     max_drawdown      |-> Q(-20, 100),
     avg_drawdown      |-> Q(-10, 100),
     beta              |-> Q(1, 1),
     sortino_ratio     |-> Q(7, 10),
     skewness          |-> Q(0, 1),
     kurtosis          |-> Q(0, 1),
     calmar_ratio      |-> Q(1, 1),
     information_ratio |-> Q(0, 1)]

BetaGate_AnyMarket(prices, market) == ~IsNone(market)

\* market_data is not None and len(market_data) >= len(price_history) * 0.5
BetaGate(prices, market) ==
    /\ ~IsNone(market)
    /\ 2 * Length(market) >= Length(prices)

\* the profile, and in via how beta was obtained
calculate_all_risk_metrics(prices, market, lib) ==
    IF Length(prices) < 2
    THEN [val |-> [k |-> "dict", m |-> _get_default_metrics], via |-> "default_metrics"]
    ELSE
      LET rets == calculate_returns(prices, "log")
          dd   == calculate_drawdown(prices)
          gate == BetaGate(prices, market)
          metrics ==
            [volatility_252d   |-> calculate_volatility(prices, 252),
             volatility_60d    |-> calculate_volatility(prices, 60),
             var_95            |-> calculate_var(rets, CONFIDENCE_95, "historical", lib),
             var_99            |-> calculate_var(rets, CONFIDENCE_99, "historical", lib),
             cvar_95           |-> calculate_cvar(rets, CONFIDENCE_95),
             sharpe_ratio      |-> calculate_sharpe_ratio(rets, RISK_FREE_RATE, 252),
             max_drawdown      |-> dd[1],
             avg_drawdown      |-> dd[2],
             beta              |-> IF gate
                                   THEN RiskMetricsCalculator_calculate_beta(prices, market).val
                                   ELSE Q(1, 1),
             sortino_ratio     |-> calculate_sortino_ratio(rets, RISK_FREE_RATE, 252),
             skewness          |-> stats_skew(rets, lib),
             kurtosis          |-> stats_kurtosis(rets, lib),
             calmar_ratio      |-> calculate_calmar_ratio(rets, dd[1], 252),
             information_ratio |-> Q(0, 1)]
      IN  [val |-> [k |-> "dict", m |-> metrics],
           via |-> IF gate THEN "calculate_beta" ELSE "default_beta"]

\* the caller's two series as calculate_all_risk_metrics leaves them: of the
\* functions it calls only calculate_beta assigns to a name bound to an argument
ArgumentsAfter_calculate_all_risk_metrics(prices, market) ==
    IF Length(prices) < 2 THEN <<prices, market>>
    ELSE IF BetaGate(prices, market) THEN ArgumentsAfter_calculate_beta(prices, market)
    ELSE <<prices, market>>

(***************************************************************************)
(* streamlit_app.py: the sidebar and the Single Stock Analysis page.       *)
(* page is what one run of the script leaves on the screen: the mode and   *)
(* the widgets' values, the sidebar's weights, and the analysis shown by   *)
(* the run that the Analyze button started.                                 *)
(***************************************************************************)
AnalysisModes ==
    {"Single Stock Analysis", "Sector Comparison", "Peer Benchmarking", "Portfolio Risk"}

Periods == {"1y", "2y", "5y"}

\* companies of nifty50_companies (the first ones in sorted order) and their symbols
CompanySymbols ==
    ("Adani Enterprises" :> "ADANIENTER.NS") @@
     ("Adani Ports" :> "ADANIPORTS.NS") @@
     ("Ambuja Cements" :> "AMBUJACEM.NS") @@
     ("Apollo Hospitals" :> "APOLLOHOSP.NS") @@
     ("Asian Paints" :> "ASIANPAINT.NS") @@
     ("Axis Bank" :> "AXISBANK.NS") @@
     ("Bajaj Auto" :> "BAJAJAUT.NS") @@
     ("Bajaj Finance" :> "BAJAJFINSV.NS") @@
     ("Berger Paints" :> "BERGEPAINT.NS") @@
     ("Bharti Airtel" :> "BHARTIARTL.NS") @@
     ("Biocon" :> "BIOCON.NS") @@
     ("Britannia" :> "BRITANNIA.NS") @@
     ("Cipla" :> "CIPLA.NS") @@
     ("Coal India" :> "COALINDIA.NS") @@
     ("Colgate Palmolive" :> "COLPAL.NS") @@
     ("Divi's Laboratories" :> "DIVISLAB.NS") @@
     ("Dr. Reddy's" :> "DRREDDY.NS") @@
     ("Eicher Motors" :> "EICHERMOT.NS") @@
     ("Godrej Industries" :> "GODREJIND.NS") @@
     ("HDFC" :> "HDFC.NS")

Companies == DOMAIN CompanySymbols

DefaultCompany == "Adani Enterprises"

LENS_WEIGHTS_QualityThirty ==
    [valuation |-> 20, quality |-> 30, growth |-> 20, health |-> 20, risk |-> 15]

\* the weights the sidebar states, in percent
LENS_WEIGHTS ==
    [valuation |-> 20, quality |-> 25, growth |-> 20, health |-> 20, risk |-> 15]

\* the five lens scores the page shows, out of 100
LensScoresShown ==
    [valuation |-> 78, quality |-> 82, growth |-> 75, health |-> 80, risk |-> 72]

CompositeShown_Hold == Q(674, 10)

\* the composite score the page shows: 77.4/100
CompositeShown == Q(774, 10)

NoAnalysis == [k |-> "none"]

\* what `if analyze:` renders
Analysis(company, period) ==
    [k         |-> "analysis",
     company   |-> company,
     symbol    |-> CompanySymbols[company],
     period    |-> period,
     lens      |-> LensScoresShown,
     composite |-> CompositeShown,
     signal    |-> "GOOD - BUY SIGNAL",
     rating    |-> "BUY"]

\* one run of the script
Render(mode, company, period, analyze) ==
    [analysis_mode    |-> mode,
     weights          |-> LENS_WEIGHTS,
     selected_company |-> company,
     period           |-> period,
     shown            |-> IF mode = "Single Stock Analysis" /\ analyze
                          THEN Analysis(company, period)
                          ELSE NoAnalysis]

InitialPage == Render("Single Stock Analysis", DefaultCompany, "1y", FALSE)

(***************************************************************************)
(* The state machine: one call of one operation on inputs drawn in Init    *)
(***************************************************************************)
SeriesInputs ==
    {MkSeries(len, pat, start, tz) :
        len \in Lens, pat \in Patterns, start \in {0, 1}, tz \in Timezones}

StockInputs ==
    {MkSeries(len, pat, 0, 330) : len \in Lens, pat \in Patterns}

Idle == [op |-> "idle"]

NoResult == [val |-> NoneValue, via |-> "idle"]

Init ==
    /\ price_history \in StockInputs
    /\ market_data \in SeriesInputs \cup {NoSeries}
    /\ returns = <<>>
    /\ call = Idle
    /\ result = NoResult
    /\ page = InitialPage
    /\ heap = <<>>

CallDataFetcherBeta ==
    /\ call = Idle
    /\ \E stock_fetch \in {"data", "None", "raise"} :
        /\ call' = [op |-> "DataFetcher.calculate_beta", stock_fetch |-> stock_fetch]
        /\ result' = DataFetcher_calculate_beta(stock_fetch, price_history, market_data)
    /\ UNCHANGED <<price_history, market_data, returns, page, heap>>

CallRiskBeta ==
    /\ call = Idle
    /\ call' = [op |-> "RiskMetricsCalculator.calculate_beta"]
    /\ result' = RiskMetricsCalculator_calculate_beta(price_history, market_data)
    /\ price_history' = ArgumentsAfter_calculate_beta(price_history, market_data)[1]
    /\ market_data' = ArgumentsAfter_calculate_beta(price_history, market_data)[2]
    /\ UNCHANGED <<returns, page, heap>>

Next ==
    \/ CallDataFetcherBeta
    \/ CallRiskBeta

Spec == Init /\ [][Next]_vars

(***************************************************************************)
(* calculate_all_risk_metrics on one instrument                            *)
(***************************************************************************)
\* a history with more than 60 returns
LongLen == 64

\* lengths around the thresholds of the code: 2 points, 10 returns, 20 prices,
\* an instrument more than twice as long as a 20-price market series, and a
\* history longer than the 60 periods of volatility_60d
ProfileLens ==
    {0, 1, 2, 3, MIN_TAIL_OBSERVATIONS, MIN_TAIL_OBSERVATIONS + 1,
     MIN_PRICES_BETA, MaxLen, 2 * MIN_PRICES_BETA + 1, LongLen}

InitProfile ==
    /\ price_history \in {MkSeries(len, pat, 0, 330) : len \in ProfileLens, pat \in Patterns}
    /\ market_data \in
         {MkSeries(len, pat, start, 330) : len \in Lens, pat \in Patterns, start \in {0, 1}}
         \cup {NoSeries}
    /\ returns = <<>>
    /\ call = Idle
    /\ result = NoResult
    /\ page = InitialPage
    /\ heap = <<>>

CallAllRiskMetrics ==
    /\ call = Idle
    /\ \E lib \in {"nan", "zero"} :
        /\ call' = [op |-> "calculate_all_risk_metrics", lib |-> lib]
        /\ result' = calculate_all_risk_metrics(price_history, market_data, lib)
    /\ price_history' =
         ArgumentsAfter_calculate_all_risk_metrics(price_history, market_data)[1]
    /\ market_data' =
         ArgumentsAfter_calculate_all_risk_metrics(price_history, market_data)[2]
    /\ UNCHANGED <<returns, page, heap>>

NextProfile == CallAllRiskMetrics

SpecProfile == InitProfile /\ [][NextProfile]_vars

(***************************************************************************)
(* calculate_var and calculate_cvar on an array of returns                 *)
(***************************************************************************)
MaxHead == 3

MaxFill == 10

\* returns in percent
ReturnValues == {-2, 0, 1}

Confidences == {[n |-> 50, d |-> 100], CONFIDENCE_95, CONFIDENCE_99}

Methods == {"historical", "parametric", "cornish-fisher", "other"}

\* a free head of up to MaxHead returns followed by up to MaxFill equal returns
ReturnInputs ==
    {Array("one", 100, head \o [i \in 1..fill |-> f]) :
        head \in UNION {[1..k -> ReturnValues] : k \in 0..MaxHead},
        f \in ReturnValues, fill \in 0..MaxFill}

InitTail ==
    /\ price_history = MkSeries(0, <<2>>, 0, 330)
    /\ market_data = NoSeries
    /\ returns \in ReturnInputs
    /\ call = Idle
    /\ result = NoResult
    /\ page = InitialPage
    /\ heap = <<>>

CallVar ==
    /\ call = Idle
    /\ \E confidence \in Confidences, method \in Methods :
       \E lib \in IF method = "cornish-fisher" THEN {"nan", "zero"} ELSE {"nan"} :
        /\ call' = [op |-> "calculate_var", confidence |-> confidence,
                    method |-> method, lib |-> lib]
        /\ result' = [val |-> calculate_var(returns, confidence, method, lib),
                      via |-> "calculate_var"]
    /\ UNCHANGED <<price_history, market_data, returns, page, heap>>

CallCVaR ==
    /\ call = Idle
    /\ \E confidence \in Confidences :
        /\ call' = [op |-> "calculate_cvar", confidence |-> confidence]
        /\ result' = [val |-> calculate_cvar(returns, confidence), via |-> "calculate_cvar"]
    /\ UNCHANGED <<price_history, market_data, returns, page, heap>>

NextTail ==
    \/ CallVar
    \/ CallCVaR

SpecTail == InitTail /\ [][NextTail]_vars

(***************************************************************************)
(* The single-series functions: calculate_volatility, calculate_returns,   *)
(* calculate_sharpe_ratio, calculate_sortino_ratio, calculate_drawdown     *)
(***************************************************************************)
MaxShort == 4

\* a pandas Series of the closing prices ps on consecutive days
SeriesOf(ps) ==
    [kind |-> "Series", tz |-> 330,
     rows |-> [i \in 1..Len(ps) |-> [d |-> i - 1, p |-> ps[i]]]]

\* every series of up to MaxShort prices, and longer periodic ones
PriceInputs ==
    {SeriesOf(ps) : ps \in UNION {[1..k -> Prices] : k \in 0..MaxShort}}
    \cup {MkSeries(len, pat, 0, 330) :
            len \in {MIN_TAIL_OBSERVATIONS, MIN_TAIL_OBSERVATIONS + 1}, pat \in Patterns}

ReturnMethods == {"log", "simple"}

\* the risk-free rates a caller passes: the default and none
RiskFreeRates == {RISK_FREE_RATE, [n |-> 0, d |-> 100]}

InitSeries ==
    /\ price_history \in PriceInputs
    /\ market_data = NoSeries
    /\ returns = <<>>
    /\ call = Idle
    /\ result = NoResult
    /\ page = InitialPage
    /\ heap = <<>>

CallVolatility ==
    /\ call = Idle
    /\ \E periods \in {252, 60} :
        /\ call' = [op |-> "calculate_volatility", periods |-> periods]
        /\ result' = [val |-> calculate_volatility(price_history, periods),
                      via |-> "calculate_volatility"]
    /\ UNCHANGED <<price_history, market_data, returns, page, heap>>

CallReturns ==
    /\ call = Idle
    /\ \E method \in ReturnMethods :
        /\ call' = [op |-> "calculate_returns", method |-> method]
        /\ returns' = calculate_returns(price_history, method)
    /\ result' = [val |-> NoneValue, via |-> "calculate_returns"]
    /\ UNCHANGED <<price_history, market_data, page, heap>>

\* the ratio functions are called on the returns calculate_returns produced
CallSharpe ==
    /\ call.op = "calculate_returns"
    /\ call' = [op |-> "calculate_sharpe_ratio", method |-> call.method]
    /\ result' = [val |-> calculate_sharpe_ratio(returns, RISK_FREE_RATE, 252),
                  via |-> "calculate_sharpe_ratio"]
    /\ UNCHANGED <<price_history, market_data, returns, page, heap>>

CallSortino ==
    /\ call.op = "calculate_returns"
    /\ \E risk_free_rate \in RiskFreeRates :
        /\ call' = [op |-> "calculate_sortino_ratio", method |-> call.method,
                    risk_free_rate |-> risk_free_rate]
        /\ result' = [val |-> calculate_sortino_ratio(returns, risk_free_rate, 252),
                      via |-> "calculate_sortino_ratio"]
    /\ UNCHANGED <<price_history, market_data, returns, page, heap>>

CallDrawdown ==
    /\ call = Idle
    /\ call' = [op |-> "calculate_drawdown"]
    /\ result' = [val |-> calculate_drawdown(price_history), via |-> "calculate_drawdown"]
    /\ UNCHANGED <<price_history, market_data, returns, page, heap>>

NextSeries ==
    \/ CallVolatility
    \/ CallReturns
    \/ CallSharpe
    \/ CallSortino
    \/ CallDrawdown

SpecSeries == InitSeries /\ [][NextSeries]_vars

(***************************************************************************)
(* The Single Stock Analysis page: every change of a widget reruns the     *)
(* script; the button is True only in the run its click started            *)
(***************************************************************************)
InitApp ==
    /\ price_history = MkSeries(0, <<2>>, 0, 330)
    /\ market_data = NoSeries
    /\ returns = <<>>
    /\ call = Idle
    /\ result = NoResult
    /\ page = InitialPage
    /\ heap = <<>>

\* a widget that a run does not render loses its value
SelectMode ==
    /\ \E mode \in AnalysisModes \ {page.analysis_mode} :
         page' = Render(mode, DefaultCompany, "1y", FALSE)
    /\ UNCHANGED <<price_history, market_data, returns, call, result, heap>>

SelectCompany ==
    /\ page.analysis_mode = "Single Stock Analysis"
    /\ \E company \in Companies \ {page.selected_company} :
         page' = Render(page.analysis_mode, company, page.period, FALSE)
    /\ UNCHANGED <<price_history, market_data, returns, call, result, heap>>

SelectPeriod ==
    /\ page.analysis_mode = "Single Stock Analysis"
    /\ \E period \in Periods \ {page.period} :
         page' = Render(page.analysis_mode, page.selected_company, period, FALSE)
    /\ UNCHANGED <<price_history, market_data, returns, call, result, heap>>

ClickAnalyze ==
    /\ page.analysis_mode = "Single Stock Analysis"
    /\ page' = Render(page.analysis_mode, page.selected_company, page.period, TRUE)
    /\ UNCHANGED <<price_history, market_data, returns, call, result, heap>>

NextApp ==
    \/ SelectMode
    \/ SelectCompany
    \/ SelectPeriod
    \/ ClickAnalyze

SpecApp == InitApp /\ [][NextApp]_vars

(***************************************************************************)
(* RiskMetricsCalculator.calculate_correlation_matrix                      *)
(***************************************************************************)
MaxNames == 2

NameOrder == <<"A", "B", "C", "D">>

\* the dicts' key sets: the first n names, n = 0..MaxNames
NameSets == {{NameOrder[i] : i \in 1..n} : n \in 0..MaxNames}

CorrPrices == {1, 2}

\* series of 0 to 3 prices that start on day 0 or day 1
CorrSeries ==
    {MkSeries(Len(ps), ps, start, 330) :
        ps \in UNION {[1..k -> CorrPrices] : k \in 1..3}, start \in {0, 1}}
    \cup {MkSeries(0, <<1>>, 0, 330)}

ReturnsFrame_ByPosition(rets) ==
    [columns |-> DOMAIN rets,
     index   |-> UNION {1..Len(rets[n]) : n \in DOMAIN rets},
     loc     |-> [n \in DOMAIN rets |->
                    [t \in UNION {1..Len(rets[m]) : m \in DOMAIN rets} |->
                        IF t <= Len(rets[n])
                        THEN [nan |-> FALSE, v |-> rets[n][t].v]
                        ELSE [nan |-> TRUE, v |-> 0]]]]

\* pd.DataFrame(returns): one column per name, the index is the union of the
\* columns' indexes, a label a column does not have is NaN in that column
ReturnsFrame(rets) ==
    [columns |-> DOMAIN rets,
     index   |-> UNION {{rets[n][i].t : i \in 1..Len(rets[n])} : n \in DOMAIN rets},
     loc     |-> [n \in DOMAIN rets |->
                    [t \in UNION {{rets[m][i].t : i \in 1..Len(rets[m])} : m \in DOMAIN rets} |->
                        IF \E i \in 1..Len(rets[n]) : rets[n][i].t = t
                        THEN [nan |-> FALSE,
                              v |-> rets[n][CHOOSE i \in 1..Len(rets[n]) : rets[n][i].t = t].v]
                        ELSE [nan |-> TRUE, v |-> 0]]]]

\* the labels of the set ts in ascending order
Ascending(ts) ==
    [k \in 1..Cardinality(ts) |->
        CHOOSE t \in ts : Cardinality({u \in ts : u < t}) = k - 1]

\* DataFrame.corr() for columns a and b: Pearson correlation over the labels
\* where both columns have a value (min_periods = 1); NaN when there is no such
\* label or a column is constant there
Pearson(df, a, b) ==
    LET ts == Ascending({t \in df.index : ~df.loc[a][t].nan /\ ~df.loc[b][t].nan})
        x  == [i \in 1..Len(ts) |-> df.loc[a][ts[i]].v]
        y  == [i \in 1..Len(ts) |-> df.loc[b][ts[i]].v]
    IN  IF Len(ts) < 1 \/ CrossDev(x, x) = 0 \/ CrossDev(y, y) = 0 THEN NaN
        ELSE IF CrossDev(x, y) * CrossDev(x, y) = CrossDev(x, x) * CrossDev(y, y)
        THEN Q(IF CrossDev(x, y) > 0 THEN 1 ELSE -1, 1)
        ELSE Real("pearson")

\* the correlation frame: its columns (= its index) and its cells
calculate_correlation_matrix(price_histories) ==
    LET rets == [n \in DOMAIN price_histories |->
                    dropna(pct_change(price_histories[n]))]
        returns_df == ReturnsFrame(rets)
    IN  [k       |-> "DataFrame",
         columns |-> returns_df.columns,
         cells   |-> [a \in returns_df.columns |->
                        [b \in returns_df.columns |-> Pearson(returns_df, a, b)]]]

\* DataFrame.empty
IsEmptyFrame(df) == df.columns = {}

InitCorr ==
    /\ price_history = MkSeries(0, <<2>>, 0, 330)
    /\ market_data = NoSeries
    /\ returns = <<>>
    /\ call = Idle
    /\ result = NoResult
    /\ page = InitialPage
    /\ heap = <<>>

CallCorrelationMatrix ==
    /\ call = Idle
    /\ \E names \in NameSets : \E price_histories \in [names -> CorrSeries] :
        /\ call' = [op |-> "calculate_correlation_matrix",
                    price_histories |-> price_histories]
        /\ result' = [val |-> calculate_correlation_matrix(price_histories),
                      via |-> "calculate_correlation_matrix"]
    /\ UNCHANGED <<price_history, market_data, returns, page, heap>>

NextCorr == CallCorrelationMatrix

SpecCorr == InitCorr /\ [][NextCorr]_vars

(***************************************************************************)
(* The profiles a caller holds.  heap is the sequence of the dict objects    *)
(* the calls have created; a call returns a reference to one of them, and   *)
(* the caller may change the dicts it was given.                            *)
(***************************************************************************)
\* d.get(key)
Get(info, key) == IF key \in DOMAIN info THEN info[key] ELSE NoneValue

\* d.get(key, default)
GetDefault(info, key, default) == IF key \in DOMAIN info THEN info[key] ELSE default

MaxCalls == 2

Allocate_Shared(objects, value) ==
    IF objects = <<>> THEN [heap |-> <<value>>, ref |-> 1]
    ELSE [heap |-> objects, ref |-> 1]

\* metrics = {} and the dict display of _get_default_metrics: a new object
Allocate(objects, value) ==
    [heap |-> Append(objects, value), ref |-> Len(objects) + 1]

FreshInputs ==
    {MkSeries(len, pat, 0, 330) :
        len \in {0, 1, 2, 3, MIN_TAIL_OBSERVATIONS + 1}, pat \in {<<2>>, <<1, 2, 4, 2>>}}

\* the values a caller writes into a profile it holds
CallerWrites == {Q(9, 1)}

InitFresh ==
    /\ price_history \in FreshInputs
    /\ market_data = NoSeries
    /\ returns = <<>>
    /\ call = Idle
    /\ result = NoResult
    /\ page = InitialPage
    /\ heap = <<>>

\* calculate_all_risk_metrics returns a reference to the dict it built
CallProfile ==
    /\ Len(heap) < MaxCalls
    /\ \E lib \in {"nan", "zero"} :
         LET r == calculate_all_risk_metrics(price_history, market_data, lib)
             a == Allocate(heap, r.val.m)
         IN  /\ heap' = a.heap
             /\ result' = [val |-> [k |-> "ref", id |-> a.ref], via |-> r.via]
             /\ call' = [op |-> "calculate_all_risk_metrics", lib |-> lib]
    /\ UNCHANGED <<price_history, market_data, returns, page>>

\* the caller sets or adds a key of a profile returned earlier
ModifyProfile ==
    /\ \E id \in 1..Len(heap), f \in {"beta", "note"}, v \in CallerWrites :
         /\ heap' = [heap EXCEPT ![id] =
                       [g \in DOMAIN heap[id] \cup {f} |-> IF g = f THEN v ELSE heap[id][g]]]
         /\ heap' # heap
         /\ call' = [op |-> "modify", id |-> id]
    /\ UNCHANGED <<price_history, market_data, returns, result, page>>

\* v < c for a float v (a number, a square root or NaN) and a rational c > 0;
\* a comparison with NaN is False
Below(v, c) ==
    IF v.k = "num" THEN v.n * c.d < c.n * v.d
    ELSE IF v.k = "sqrt" THEN v.n <= ((c.n * c.n * v.d) - 1) \div (c.d * c.d)
    ELSE FALSE

\* v > c, likewise
Above(v, c) ==
    IF v.k = "num" THEN v.n * c.d > c.n * v.d
    ELSE IF v.k = "sqrt" THEN v.n > (c.n * c.n * v.d) \div (c.d * c.d)
    ELSE FALSE

\* the labels `'Excellent' if sharpe > 1 else 'Good' if sharpe > 0.5 else 'Fair'`
\* can give; the value of a ratio the model does not track is any real number
SharpeProfiles(sharpe) ==
    IF sharpe.k = "real" THEN {"Excellent", "Good", "Fair"}
    ELSE IF Above(sharpe, Q(1, 1)) THEN {"Excellent"}
    ELSE IF Above(sharpe, Q(5, 10)) THEN {"Good"}
    ELSE {"Fair"}

\* the labels of the summary text; vol * 100 < 15 is vol < 15/100
risk_profile_summary(risk_metrics, sharpe_profile) ==
    LET vol  == GetDefault(risk_metrics, "volatility_252d", Q(25, 100))
        beta == GetDefault(risk_metrics, "beta", Q(1, 1))
    IN  [vol_profile    |-> IF Below(vol, Q(15, 100)) THEN "Low Volatility"
                            ELSE IF Below(vol, Q(25, 100)) THEN "Moderate Volatility"
                            ELSE "High Volatility",
         beta_profile   |-> IF Below(beta, Q(8, 10)) THEN "Defensive"
                            ELSE IF Above(beta, Q(12, 10)) THEN "Aggressive"
                            ELSE "Market-Aligned",
         sharpe_profile |-> sharpe_profile]

\* the caller asks for the summary of a profile it holds, or of an empty dict
CallSummary ==
    /\ \E risk_metrics \in {heap[id] : id \in 1..Len(heap)} \cup {<<>>} :
       \E sharpe_profile \in SharpeProfiles(GetDefault(risk_metrics, "sharpe_ratio", Q(5, 10))) :
         /\ call' = [op |-> "risk_profile_summary", risk_metrics |-> risk_metrics]
         /\ result' = [val |-> risk_profile_summary(risk_metrics, sharpe_profile),
                       via |-> "risk_profile_summary"]
    /\ UNCHANGED <<price_history, market_data, returns, page, heap>>

NextFresh ==
    \/ CallProfile
    \/ ModifyProfile
    \/ CallSummary

SpecFresh == InitFresh /\ [][NextFresh]_vars

(***************************************************************************)
(* DataFetcher.extract_financial_metrics.  info is a dict (a function from  *)
(* the keys it has to numbers or None) or None.                             *)
(***************************************************************************)
\* the truth value of a number or None in a condition
Truthy(v) == IsNum(v) /\ v.n # 0

Positive(v) == IsNum(v) /\ v.n > 0

\* a * b for rationals of one unit
RatMul(a, b) == Q(a.n * b.n, a.d * b.d)

\* Approach 2 for debt_to_equity (data_fetcher.py:326-337); None when no branch
\* applies or a comparison raised inside the inner try
ComputedDebtToEquity(info) ==
    LET total_debt         == Get(info, "totalDebt")
        total_equity       == Get(info, "totalEquity")
        book_value         == Get(info, "bookValue")
        shares_outstanding == GetDefault(info, "sharesOutstanding", Q(1, 1))
    IN  IF Truthy(total_debt) /\ Truthy(total_equity)
        THEN IF Positive(total_equity) THEN RatDiv(total_debt, total_equity)
             ELSE IF Truthy(book_value) /\ Truthy(shares_outstanding)
                     /\ Positive(RatMul(book_value, shares_outstanding))
             THEN RatDiv(total_debt, RatMul(book_value, shares_outstanding))
             ELSE NoneValue
        ELSE IF Truthy(total_debt) /\ Truthy(book_value) /\ Truthy(shares_outstanding)
                /\ Positive(RatMul(book_value, shares_outstanding))
        THEN RatDiv(total_debt, RatMul(book_value, shares_outstanding))
        ELSE NoneValue

\* Approach 2 for current_ratio (data_fetcher.py:350-357)
ComputedCurrentRatio(info) ==
    LET current_assets      == Get(info, "currentAssets")
        current_liabilities == Get(info, "currentLiabilities")
    IN  IF Truthy(current_assets) /\ Truthy(current_liabilities)
           /\ Positive(current_liabilities)
        THEN RatDiv(current_assets, current_liabilities)
        ELSE NoneValue

\* Approach 2 for interest_coverage (data_fetcher.py:370-380)
ComputedInterestCoverage(info) ==
    LET ebit             == Get(info, "ebit")
        operating_income == Get(info, "operatingIncome")
        interest_expense == Get(info, "interestExpense")
        earnings         == IF Truthy(ebit) THEN ebit ELSE operating_income
    IN  IF Truthy(earnings) /\ Truthy(interest_expense) /\ Positive(interest_expense)
        THEN RatDiv(earnings, interest_expense)
        ELSE NoneValue

\* Approach 1, then Approach 2 only if Approach 1 gave None
DirectOrComputed(direct, computed) ==
    IF direct # NoneValue THEN direct ELSE computed

AllNoneMetrics ==
    [roe |-> NoneValue, npm |-> NoneValue, roa |-> NoneValue, roic |-> NoneValue,
     debt_to_equity |-> NoneValue, current_ratio |-> NoneValue,
     interest_coverage |-> NoneValue, revenue_growth_yoy |-> NoneValue,
     earnings_growth_yoy |-> NoneValue, peg_ratio |-> NoneValue]

extract_financial_metrics(info) ==
    IF info = NoneValue
    THEN \* info.get raises AttributeError: the outer except returns the None dict
         [val |-> [k |-> "dict", m |-> AllNoneMetrics], via |-> "except"]
    ELSE [val |-> [k |-> "dict", m |->
            [roe                 |-> Get(info, "returnOnEquity"),
             npm                 |-> Get(info, "profitMargins"),
             roa                 |-> Get(info, "returnOnAssets"),
             roic                |-> Get(info, "returnOnCapital"),
             debt_to_equity      |-> DirectOrComputed(Get(info, "debtToEquity"),
                                                      ComputedDebtToEquity(info)),
             current_ratio       |-> DirectOrComputed(Get(info, "currentRatio"),
                                                      ComputedCurrentRatio(info)),
             interest_coverage   |-> DirectOrComputed(Get(info, "interestCoverage"),
                                                      ComputedInterestCoverage(info)),
             revenue_growth_yoy  |-> Get(info, "revenueGrowth"),
             earnings_growth_yoy |-> Get(info, "earningsGrowth"),
             peg_ratio           |-> Get(info, "pegRatio")]],
          via |-> "metrics"]

\* the values of info's fields
InfoValues == {Q(0, 1), Q(2, 1), Q(-1, 1), NoneValue}

\* every dict over some of the keys
InfosOver(keys, values) == UNION {[ks -> values] : ks \in SUBSET keys}

PlainKeys ==
    {"returnOnEquity", "profitMargins", "returnOnAssets", "returnOnCapital",
     "revenueGrowth", "earningsGrowth", "pegRatio"}

DebtToEquityKeys ==
    {"debtToEquity", "totalDebt", "totalEquity", "bookValue", "sharesOutstanding"}

CurrentRatioKeys == {"currentRatio", "currentAssets", "currentLiabilities"}

InterestCoverageKeys == {"interestCoverage", "ebit", "operatingIncome", "interestExpense"}

\* the groups of keys do not interact in the code: info varies over one group
InfoInputs ==
    InfosOver(PlainKeys, {Q(2, 1), NoneValue})
      \cup InfosOver(DebtToEquityKeys, InfoValues)
      \cup InfosOver(CurrentRatioKeys, InfoValues)
      \cup InfosOver(InterestCoverageKeys, InfoValues)
      \cup {NoneValue}

InitExtract ==
    /\ price_history = MkSeries(0, <<2>>, 0, 330)
    /\ market_data = NoSeries
    /\ returns = <<>>
    /\ call = Idle
    /\ result = NoResult
    /\ page = InitialPage
    /\ heap = <<>>

CallExtractFinancialMetrics ==
    /\ call = Idle
    /\ \E info \in InfoInputs :
        /\ call' = [op |-> "extract_financial_metrics", info |-> info]
        /\ result' = extract_financial_metrics(info)
    /\ UNCHANGED <<price_history, market_data, returns, page, heap>>

NextExtract == CallExtractFinancialMetrics

SpecExtract == InitExtract /\ [][NextExtract]_vars

(***************************************************************************)
(* DataFetcher.fetch_market_index, one step per fetch attempt and per wait. *)
(* The call frame is in call: the ticker and attempt the loops are at, the  *)
(* position in the body, and the fetches made so far with their outcomes.   *)
(***************************************************************************)
tickers_to_try_SensexFirst == <<"^BSESN", "^NSEI", "NIFTYBEES.NS">>

tickers_to_try == <<"^NSEI", "^BSESN", "NIFTYBEES.NS">>

max_retries == 3

\* the index symbols a caller passes
IndexSymbols == {"^NSEI", "^BSESN"}

\* what yf.Ticker(ticker).history(period=period) does: returns None, an empty
\* frame or a frame with rows, or raises
FetchOutcomes == {"None", "empty", "raise", "data"}

\* the frame history() returned for a ticker
MarketFrame(ticker) == [k |-> "DataFrame", ticker |-> ticker]

InitFetch ==
    /\ price_history = MkSeries(0, <<2>>, 0, 330)
    /\ market_data = NoSeries
    /\ returns = <<>>
    /\ call = Idle
    /\ result = NoResult
    /\ page = InitialPage
    /\ heap = <<>>

CallFetchMarketIndex ==
    /\ call = Idle
    /\ \E index_symbol \in IndexSymbols :
        call' = [op |-> "fetch_market_index", index_symbol |-> index_symbol,
                 ticker |-> 1, attempt |-> 0, pc |-> "fetch", fetched |-> <<>>]
    /\ UNCHANGED <<price_history, market_data, returns, result, page, heap>>

\* one pass of the body of `for attempt in range(max_retries)` up to its return,
\* its wait, or the end of the pass
FetchAttempt ==
    /\ call.op = "fetch_market_index" /\ call.pc = "fetch"
    /\ \E outcome \in FetchOutcomes :
        LET ticker  == tickers_to_try[call.ticker]
            fetched == Append(call.fetched, [ticker |-> ticker, outcome |-> outcome])
        IN  IF outcome = "data"
            THEN /\ call' = [call EXCEPT !.pc = "done", !.fetched = fetched]
                 /\ result' = [val |-> MarketFrame(ticker), via |-> "fetch_market_index"]
            ELSE IF call.attempt < max_retries - 1
            THEN /\ call' = [call EXCEPT !.pc = "sleep", !.fetched = fetched]
                 /\ UNCHANGED result
            ELSE IF call.ticker < Len(tickers_to_try)
            THEN /\ call' = [call EXCEPT !.ticker = @ + 1, !.attempt = 0,
                                         !.fetched = fetched]
                 /\ UNCHANGED result
            ELSE /\ call' = [call EXCEPT !.pc = "done", !.fetched = fetched]
                 /\ result' = [val |-> NoneValue, via |-> "fetch_market_index"]
    /\ UNCHANGED <<price_history, market_data, returns, page, heap>>

\* time.sleep(wait_time) returns and the next attempt begins
Wait ==
    /\ call.op = "fetch_market_index" /\ call.pc = "sleep"
    /\ call' = [call EXCEPT !.pc = "fetch", !.attempt = @ + 1]
    /\ UNCHANGED <<price_history, market_data, returns, result, page, heap>>

NextFetch ==
    \/ CallFetchMarketIndex
    \/ FetchAttempt
    \/ Wait

SpecFetch == InitFetch /\ [][NextFetch]_vars

\* every fetch and every wait returns: history() has a request timeout and
\* time.sleep a finite duration
SpecFetchFair == SpecFetch /\ WF_vars(NextFetch)

(***************************************************************************)
(* Claims about the beta estimators                                        *)
(***************************************************************************)
DFCall == call.op = "DataFetcher.calculate_beta"

RMCall == call.op = "RiskMetricsCalculator.calculate_beta"

\* both price series reached the estimator (fetched, not None)
BothPresent ==
    /\ ~IsNone(market_data)
    /\ DFCall => call.stock_fetch = "data"

\* the aligned market returns the estimator called would use
AlignedMarket ==
    IF DFCall
    THEN LET a == AlignedReturns(price_history, market_data)
         IN  [i \in 1..Len(a) |-> a[i].market.v]
    ELSE Values(PositionalReturns(price_history, market_data).market)

NonConstant(s) == \E i, j \in 1..Len(s) : s[i] # s[j]

One == [k |-> "num", n |-> 1, d |-> 1, u |-> "one"]

C2_IdenticalSeriesBetaIsOne ==
    ( /\ DFCall \/ RMCall
      /\ BothPresent
      /\ market_data = price_history
      /\ Len(AlignedMarket) >= 30
      /\ NonConstant(AlignedMarket) )
    => result.val = One

\* C3: with fewer than 30 aligned points the value returned is never a direct
\* covariance/variance quotient
C3_DirectNeedsThirtyPoints ==
    ( /\ DFCall \/ RMCall
      /\ BothPresent
      /\ Len(AlignedMarket) < 30 )
    => result.via # "direct"

\* C4: every beta returned lies strictly inside (-5, 5)
C4_BetaInPlausibleRange ==
    ((DFCall \/ RMCall) /\ IsNum(result.val))
    => /\ -5 * result.val.d < result.val.n
       /\ result.val.n < 5 * result.val.d

DirectApplicable ==
    /\ BothPresent
    /\ RMCall => Length(price_history) >= 20 /\ Length(market_data) >= 20
    /\ DFCall => Len(AlignedMarket) >= 30
    /\ NonConstant(AlignedMarket)

C6_SameDayAlignedAcrossOffsets ==
    (DFCall /\ BothPresent) =>
      \A i \in 2..Length(price_history), j \in 2..Length(market_data) :
        price_history.rows[i].d = market_data.rows[j].d =>
          \E r \in 1..Len(AlignedReturns(price_history, market_data)) :
            LET row == AlignedReturns(price_history, market_data)[r]
            IN  /\ row.stock.t = Instant(price_history.rows[i].d, price_history.tz)
                /\ row.market.t = Instant(market_data.rows[j].d, market_data.tz)

(***************************************************************************)
(* Claims about calculate_all_risk_metrics                                 *)
(***************************************************************************)
AllCall == call.op = "calculate_all_risk_metrics"

Profile == result.val.m

\* C7: when market data is present but shorter than half the instrument series
\* the profile's beta is exactly 1.0 and calculate_beta is not called; it is
\* called only (and, for 2 prices or more, always) when market data is present
\* with at least half the instrument's length
C7_ShortMarketGivesDefaultBeta ==
    AllCall =>
      /\ (~IsNone(market_data) /\ 2 * Length(market_data) < Length(price_history))
            => Profile.beta = One /\ result.via # "calculate_beta"
      /\ result.via = "calculate_beta"
            <=> /\ Length(price_history) >= 2
                /\ ~IsNone(market_data)
                /\ 2 * Length(market_data) >= Length(price_history)

\* C7 witness: market data of 20 prices or more, shorter than half the
\* instrument series, on which calculate_beta would have estimated a beta
\* other than 1.0; the profile's beta is 1.0
C7_Witness ==
    /\ AllCall
    /\ ~IsNone(market_data)
    /\ 2 * Length(market_data) < Length(price_history)
    /\ RiskMetricsCalculator_calculate_beta(price_history, market_data).via = "direct"
    /\ RiskMetricsCalculator_calculate_beta(price_history, market_data).val # One
    /\ Profile.beta = One

ProfileFields ==
    {"volatility_252d", "volatility_60d", "var_95", "var_99", "cvar_95",
     "sharpe_ratio", "max_drawdown", "avg_drawdown", "beta", "sortino_ratio",
     "skewness", "kurtosis", "calmar_ratio", "information_ratio"}

\* C8: for a price series of fewer than 2 points, with or without market data,
\* calculate_all_risk_metrics raises nothing and returns the default profile:
\* the same fields as a computed profile, each with its documented default
\* (beta 1.0, volatility 0.25)
C8_ShortSeriesGivesDefaultProfile ==
    AllCall =>
      /\ result.val.k = "dict"
      /\ DOMAIN Profile = ProfileFields
      /\ Length(price_history) < 2 =>
           /\ Profile.beta = One
           /\ Profile.volatility_252d = [k |-> "num", n |-> 1, d |-> 4, u |-> "one"]
           /\ Profile.volatility_60d = [k |-> "num", n |-> 1, d |-> 4, u |-> "one"]
           /\ Profile.var_95 = [k |-> "num", n |-> -1, d |-> 20, u |-> "one"]
           /\ Profile.var_99 = [k |-> "num", n |-> -2, d |-> 25, u |-> "one"]
           /\ Profile.cvar_95 = [k |-> "num", n |-> -2, d |-> 25, u |-> "one"]
           /\ Profile.sharpe_ratio = [k |-> "num", n |-> 1, d |-> 2, u |-> "one"]
           /\ Profile.max_drawdown = [k |-> "num", n |-> -1, d |-> 5, u |-> "one"]
           /\ Profile.avg_drawdown = [k |-> "num", n |-> -1, d |-> 10, u |-> "one"]
           /\ Profile.sortino_ratio = [k |-> "num", n |-> 7, d |-> 10, u |-> "one"]
           /\ Profile.skewness = [k |-> "num", n |-> 0, d |-> 1, u |-> "one"]
           /\ Profile.kurtosis = [k |-> "num", n |-> 0, d |-> 1, u |-> "one"]
           /\ Profile.calmar_ratio = One
           /\ Profile.information_ratio = [k |-> "num", n |-> 0, d |-> 1, u |-> "one"]

\* C8 witness: a one-point series with market data present got the default profile
C8_Witness ==
    /\ AllCall
    /\ Length(price_history) = 1
    /\ ~IsNone(market_data) /\ Length(market_data) >= 20
    /\ Profile.beta = One
    /\ Profile.sharpe_ratio = [k |-> "num", n |-> 1, d |-> 2, u |-> "one"]

\* C10: for a series of 2 positive prices or more no metric of the profile is
\* NaN or infinite
C10_NoMetricIsNaN ==
    (AllCall /\ Length(price_history) >= 2) =>
      \A f \in DOMAIN Profile : IsFinite(Profile[f])

(***************************************************************************)
(* Claims about calculate_var and calculate_cvar                           *)
(***************************************************************************)
CVaRCall == call.op = "calculate_cvar"

\* C9: for every return series, of fewer than 10 observations too, and every
\* confidence level, calculate_cvar(r, c) <= calculate_var(r, c); when no return
\* lies at or below the VaR threshold, CVaR equals VaR
C9_CVaRNotAboveVaR ==
    CVaRCall =>
      LET var == calculate_var(returns, call.confidence, "historical", "nan")
      IN  /\ IsNum(result.val) /\ IsNum(var)
          /\ result.val.n * var.d <= var.n * result.val.d
          /\ (Size(returns) >= 10
                /\ \A i \in 1..Size(returns) : returns.v[i] * var.d > var.n * returns.den)
             => result.val = var

\* C9 witness: 10 returns or more, a VaR strictly between two of them, and a
\* CVaR strictly below the VaR
C9_Witness ==
    /\ CVaRCall
    /\ Size(returns) >= 10
    /\ LET var == calculate_var(returns, call.confidence, "historical", "nan")
       IN  /\ result.val.n * var.d < var.n * result.val.d
           /\ \A i \in 1..Size(returns) : returns.v[i] * var.d # var.n * returns.den

(***************************************************************************)
(* Claims about the single-series functions                                *)
(***************************************************************************)
Zero == [k |-> "num", n |-> 0, d |-> 1, u |-> "one"]

\* the price series is constant
Flat(prices) == \A i, j \in 1..Length(prices) : prices.rows[i].p = prices.rows[j].p

\* C11: for a constant price series of one point or more calculate_volatility
\* returns 0.0, and calculate_sharpe_ratio and calculate_sortino_ratio on its
\* returns return 0.0
C11_FlatSeriesHasZeroRisk ==
    (Length(price_history) >= 1 /\ Flat(price_history)) =>
      /\ call.op = "calculate_volatility" => result.val = Zero
      /\ call.op = "calculate_sharpe_ratio" => result.val = Zero
      /\ call.op = "calculate_sortino_ratio" => result.val = Zero

DrawdownCall == call.op = "calculate_drawdown"

StrictlyIncreasing(prices) ==
    \A i \in 1..(Length(prices) - 1) : prices.rows[i].p < prices.rows[i + 1].p

WorstDecline(prices) ==
    Minimum([k \in 1..(Length(prices) * Length(prices)) |->
        LET i == ((k - 1) \div Length(prices)) + 1
            j == ((k - 1) % Length(prices)) + 1
        IN  IF i <= j
            THEN ((prices.rows[j].p - prices.rows[i].p) * RetScale) \div prices.rows[i].p
            ELSE 0])

VarCall == call.op = "calculate_var"

\* x lies between the least and the greatest element of the array a
WithinData(a, x) ==
    /\ IsNum(x)
    /\ Minimum(a.v) * x.d <= x.n * a.den
    /\ x.n * a.den <= Maximum(a.v) * x.d

\* C14: with fewer than 10 returns calculate_var returns -0.05 and
\* calculate_cvar -0.08, whatever the returns, the confidence and the method;
\* with 10 returns or more the result is computed from the data: the historical
\* VaR and the CVaR lie between the least and the greatest return, and the
\* parametric and Cornish-Fisher VaR are not the sentinel
C14_SentinelBelowTenObservations ==
    /\ (VarCall /\ Size(returns) < 10) =>
          result.val = [k |-> "num", n |-> -1, d |-> 20, u |-> "one"]
    /\ (CVaRCall /\ Size(returns) < 10) =>
          result.val = [k |-> "num", n |-> -2, d |-> 25, u |-> "one"]
    /\ (VarCall /\ Size(returns) >= 10) =>
          IF call.method \in {"parametric", "cornish-fisher"}
          THEN result.val.k \in {"real", "nan"}
          ELSE WithinData(returns, result.val)
    /\ (CVaRCall /\ Size(returns) >= 10) => WithinData(returns, result.val)

\* C14 witness: 9 returns, none of them negative, the parametric method at 99%
\* confidence, and the result is the sentinel -0.05
C14_Witness ==
    /\ VarCall
    /\ Size(returns) = 9
    /\ \A i \in 1..Size(returns) : returns.v[i] >= 0
    /\ call.method = "parametric"
    /\ call.confidence = CONFIDENCE_99
    /\ result.val = [k |-> "num", n |-> -1, d |-> 20, u |-> "one"]

(***************************************************************************)
(* Claims about calculate_returns                                          *)
(***************************************************************************)
ReturnsCall == call.op = "calculate_returns"

\* the return r (in units of 1/den, or of ln 2 for the log method) is the one
\* between the consecutive prices p and q
ReturnBetween(method, r, den, p, q) ==
    IF method = "log"
    THEN /\ den = 1
         /\ IF r >= 0 THEN p * (2 ^ r) = q ELSE q * (2 ^ (-r)) = p
    ELSE r * p = (q - p) * den

\* C15: for N >= 2 positive prices and either method calculate_returns yields
\* exactly N - 1 returns, the k-th computed from prices k and k + 1 only (so no
\* leading zero stands for the undefined first value); for N < 2 it yields an
\* empty array
C15_ReturnsOnePerConsecutivePair ==
    ReturnsCall =>
      LET N == Length(price_history) IN
      /\ N < 2 => Size(returns) = 0
      /\ N >= 2 =>
           /\ Size(returns) = N - 1
           /\ returns.u = (IF call.method = "log" THEN "ln2" ELSE "one")
           /\ \A k \in 1..(N - 1) :
                ReturnBetween(call.method, returns.v[k], returns.den,
                              price_history.rows[k].p, price_history.rows[k + 1].p)

\* C15 witness: log returns of 3 prices or more whose first two prices differ
C15_Witness ==
    /\ ReturnsCall
    /\ call.method = "log"
    /\ Length(price_history) >= 3
    /\ price_history.rows[1].p # price_history.rows[2].p
    /\ Size(returns) = Length(price_history) - 1
    /\ returns.v[1] # 0

(***************************************************************************)
(* Claims about the Five-Lens scores the page shows                        *)
(***************************************************************************)
AnalysisShown == page.shown.k = "analysis"

Lenses == {"valuation", "quality", "growth", "health", "risk"}

\* the sum over the five lenses of weight (percent) times score
WeightedSum(weights, scores) ==
    weights.valuation * scores.valuation + weights.quality * scores.quality
      + weights.growth * scores.growth + weights.health * scores.health
      + weights.risk * scores.risk

\* C16: the composite score shown with five lens scores V, Q, G, H, R is
\* 0.20 V + 0.25 Q + 0.20 G + 0.20 H + 0.15 R of those five scores
C16_CompositeIsWeightedSum ==
    AnalysisShown =>
      /\ page.weights = [valuation |-> 20, quality |-> 25, growth |-> 20,
                         health |-> 20, risk |-> 15]
      /\ page.shown.composite.n * 100
           = WeightedSum(page.weights, page.shown.lens) * page.shown.composite.d

SignalTier(c) ==
    IF c.n >= 80 * c.d THEN "Excellent"
    ELSE IF c.n >= 70 * c.d THEN "Good/Buy"
    ELSE IF c.n >= 60 * c.d THEN "Hold"
    ELSE "Caution/Sell"

CorrCall == call.op = "calculate_correlation_matrix"

\* at least 2 named series, each with at least 1 valid return
EnoughForCorrelation(price_histories) ==
    /\ Cardinality(DOMAIN price_histories) >= 2
    /\ \A n \in DOMAIN price_histories : Length(price_histories[n]) >= 2

\* no columns at all, or no cell with a value
NothingCorrelated(df) ==
    \A a \in df.columns, b \in df.columns : IsNaN(df.cells[a][b])

\* C19: calculate_correlation_matrix returns an empty structure whenever it is
\* given fewer than 2 named series or a series without a valid return, and a
\* non-empty matrix only for 2 series or more with 1 valid return or more each
C19_EmptyUnlessTwoSeriesWithReturns ==
    (CorrCall /\ ~EnoughForCorrelation(call.price_histories)) =>
      (IsEmptyFrame(result.val) \/ NothingCorrelated(result.val))

(***************************************************************************)
(* Claims about the caller's series                                        *)
(***************************************************************************)
\* C20: calculate_all_risk_metrics, with every function it calls (the
\* truncation and alignment steps of calculate_beta among them), leaves the
\* caller's price_history and market_data as they were: same values, same
\* length, same index
C20_InputsNotMutated ==
    [][AllCall' => (price_history' = price_history /\ market_data' = market_data)]_vars

\* C20 witness: calculate_beta ran inside calculate_all_risk_metrics on two
\* series of different lengths, so it truncated the longer one, and the caller's
\* series still differ in length
C20_Witness ==
    /\ AllCall
    /\ result.via = "calculate_beta"
    /\ Length(price_history) >= 20 /\ Length(market_data) >= 20
    /\ Length(price_history) > Length(market_data)
    /\ Length(Deref(BetaFrame(price_history, market_data), "stock_prices"))
         = Length(market_data)

(***************************************************************************)
(* Claims about the profiles returned by successive calls                  *)
(***************************************************************************)
\* C21: whatever calls came before and whatever the caller did to the profiles
\* they returned, the profile a call of calculate_all_risk_metrics returns is a
\* new object, and it holds the metrics of its inputs (for fewer than 2 points
\* the default profile)
C21_ProfileFreshOnEveryCall ==
    (AllCall /\ result.val.k = "ref") =>
      /\ result.val.id = Len(heap)
      /\ heap[result.val.id]
           = calculate_all_risk_metrics(price_history, market_data, call.lib).val.m
      /\ Length(price_history) < 2 =>
           /\ heap[result.val.id].beta = One
           /\ heap[result.val.id].volatility_252d
                = [k |-> "num", n |-> 1, d |-> 4, u |-> "one"]
           /\ DOMAIN heap[result.val.id] = ProfileFields

\* C21 witness: a default profile returned earlier was changed by the caller,
\* and a later call on the same one-point series has just returned
C21_Witness ==
    /\ AllCall /\ result.val.k = "ref"
    /\ Length(price_history) = 1
    /\ result.val.id >= 2
    /\ \E i \in 1..(result.val.id - 1) :
         /\ "note" \in DOMAIN heap[i]
         /\ heap[i].beta # One

(***************************************************************************)
(* Claims about extract_financial_metrics                                  *)
(***************************************************************************)
ExtractCall == call.op = "extract_financial_metrics" /\ call.info # NoneValue

\* the field is in the mapping with a value
Has(info, key) == key \in DOMAIN info /\ info[key] # NoneValue

TenMetricKeys ==
    {"roe", "npm", "roa", "roic", "debt_to_equity", "current_ratio",
     "interest_coverage", "revenue_growth_yoy", "earnings_growth_yoy", "peg_ratio"}

\* the metrics taken from one field each
PlainMetrics ==
    {<<"roe", "returnOnEquity">>, <<"npm", "profitMargins">>,
     <<"roa", "returnOnAssets">>, <<"roic", "returnOnCapital">>,
     <<"revenue_growth_yoy", "revenueGrowth">>,
     <<"earnings_growth_yoy", "earningsGrowth">>, <<"peg_ratio", "pegRatio">>}

\* the metrics with a direct field and component fields
DirectMetrics ==
    {<<"debt_to_equity", "debtToEquity">>, <<"current_ratio", "currentRatio">>,
     <<"interest_coverage", "interestCoverage">>}

\* the component fields from which the ratio can be computed are all there
Derivable(info, metric) ==
    IF metric = "debt_to_equity"
    THEN /\ Has(info, "totalDebt")
         /\ Has(info, "totalEquity") \/ (Has(info, "bookValue") /\ Has(info, "sharesOutstanding"))
    ELSE IF metric = "current_ratio"
    THEN Has(info, "currentAssets") /\ Has(info, "currentLiabilities")
    ELSE /\ Has(info, "ebit") \/ Has(info, "operatingIncome")
         /\ Has(info, "interestExpense")

\* C22: for every subset of the fields extract_financial_metrics returns, without
\* raising, a mapping with the ten metric keys; a ratio whose field is absent
\* and that cannot be derived from component fields is None; a directly supplied
\* debt/equity, current ratio or interest coverage is reported as supplied
C22_AbsentRatiosAreNone ==
    ExtractCall =>
      /\ result.val.k = "dict"
      /\ DOMAIN result.val.m = TenMetricKeys
      /\ \A pm \in PlainMetrics :
           result.val.m[pm[1]] = (IF Has(call.info, pm[2]) THEN call.info[pm[2]] ELSE NoneValue)
      /\ \A dm \in DirectMetrics :
           /\ Has(call.info, dm[2]) => result.val.m[dm[1]] = call.info[dm[2]]
           /\ (~Has(call.info, dm[2]) /\ ~Derivable(call.info, dm[1]))
                => result.val.m[dm[1]] = NoneValue

(***************************************************************************)
(* Claims about the alignment in RiskMetricsCalculator.calculate_beta      *)
(***************************************************************************)
\* the timestamps of the returns of a price series
ReturnTimestamps(prices) ==
    {dropna(pct_change(prices))[i].t : i \in 1..Len(dropna(pct_change(prices)))}

\* the estimator got past its length guard and aligned the two series
BetaAligned ==
    /\ RMCall /\ BothPresent
    /\ Length(price_history) >= MIN_PRICES_BETA
    /\ Length(market_data) >= MIN_PRICES_BETA

\* C23: in RiskMetricsCalculator.calculate_beta the aligned returns are the
\* intersection of the two series by timestamp: the two aligned sequences have
\* the same length, the k-th instrument return and the k-th market return carry
\* the same timestamp, and the timestamps are those the two series share
C23_BetaAlignedByTimestamp ==
    BetaAligned =>
      LET r == PositionalReturns(price_history, market_data)
      IN  /\ Len(r.stock) = Len(r.market)
          /\ \A i \in 1..Len(r.stock) : r.stock[i].t = r.market[i].t
          /\ {r.stock[i].t : i \in 1..Len(r.stock)}
               = ReturnTimestamps(price_history) \cap ReturnTimestamps(market_data)

(***************************************************************************)
(* Claims about the alignment in calculate_correlation_matrix              *)
(***************************************************************************)
\* the returns of one named series of the call
ReturnsOf(n) == dropna(pct_change(call.price_histories[n]))

\* Pearson correlation of the pairs (x[i], y[i]); NaN without a pair or with a
\* constant side
CorrelationOf(x, y) ==
    IF Len(x) < 1 \/ CrossDev(x, x) = 0 \/ CrossDev(y, y) = 0 THEN NaN
    ELSE IF CrossDev(x, y) * CrossDev(x, y) = CrossDev(x, x) * CrossDev(y, y)
    THEN Q(IF CrossDev(x, y) > 0 THEN 1 ELSE -1, 1)
    ELSE Real("pearson")

\* the first returns of r, as many as both r and other have
FirstShared(r, other) == Values(SubSeq(r, 1, Min(Len(r), Len(other))))

\* the returns of r whose timestamp other has too
SameTimestamp(r, other) ==
    Values(SelectSeq(r, LAMBDA c : \E j \in 1..Len(other) : other[j].t = c.t))

\* C24 (as claimed): calculate_correlation_matrix aligns the return series by
\* position: the correlation of two series is that of their k-th returns, also
\* when the series carry different timestamps
C24_CorrelationAlignedByPosition ==
    CorrCall =>
      \A a \in result.val.columns, b \in result.val.columns :
        result.val.cells[a][b]
          = CorrelationOf(FirstShared(ReturnsOf(a), ReturnsOf(b)),
                          FirstShared(ReturnsOf(b), ReturnsOf(a)))

\* C24 (amended): calculate_correlation_matrix aligns the return series by
\* timestamp: the correlation of two series is that of their returns of the
\* same timestamp, and a return whose timestamp the other series does not have
\* does not enter it
C24_CorrelationAlignedByTimestamp ==
    CorrCall =>
      \A a \in result.val.columns, b \in result.val.columns :
        result.val.cells[a][b]
          = CorrelationOf(SameTimestamp(ReturnsOf(a), ReturnsOf(b)),
                          SameTimestamp(ReturnsOf(b), ReturnsOf(a)))

\* two series with different timestamps whose k-th returns correlate perfectly
\* and whose returns of the same timestamp give no correlation
C24_Witness ==
    /\ CorrCall
    /\ \E a \in result.val.columns, b \in result.val.columns :
         /\ Len(ReturnsOf(a)) = 2 /\ Len(ReturnsOf(b)) = 2
         /\ ReturnsOf(a)[1].t # ReturnsOf(b)[1].t
         /\ ReturnsOf(a)[2].t = ReturnsOf(b)[1].t
         /\ CorrelationOf(FirstShared(ReturnsOf(a), ReturnsOf(b)),
                          FirstShared(ReturnsOf(b), ReturnsOf(a))) = One
         /\ IsNaN(result.val.cells[a][b])

(***************************************************************************)
(* Claims about the drawdown statistics                                    *)
(***************************************************************************)
\* a <= b for two numbers
RatLeq(a, b) == a.n * b.d <= b.n * a.d

\* the highest price up to point i
PeakUpTo(prices, i) ==
    CHOOSE m \in {prices.rows[j].p : j \in 1..i} :
        \A j \in 1..i : prices.rows[j].p <= m

\* the drawdown at point i: (price - peak so far) / peak so far
DrawdownAt(prices, i) ==
    Q(prices.rows[i].p - PeakUpTo(prices, i), PeakUpTo(prices, i))

\* the points with a strictly negative drawdown
Underwater(prices) == {i \in 1..Length(prices) : DrawdownAt(prices, i).n < 0}

FetchCall == call.op = "fetch_market_index"

Returned == FetchCall /\ call.pc = "done"

Failed(f) == f.outcome \in {"None", "empty", "raise"}

\* the ticker the k-th fetch must ask for when three attempts go to ^NSEI, then
\* three to ^BSESN, then three to NIFTYBEES.NS
TickerOfFetch(k) ==
    IF k <= 3 THEN "^NSEI" ELSE IF k <= 6 THEN "^BSESN" ELSE "NIFTYBEES.NS"

FetchProtocol ==
    FetchCall =>
      LET fetched == call.fetched IN
      /\ Len(fetched) <= 9
      /\ \A k \in 1..Len(fetched) : fetched[k].ticker = TickerOfFetch(k)
      /\ \A k \in 1..(Len(fetched) - 1) : Failed(fetched[k])
      /\ (\E k \in 1..Len(fetched) : ~Failed(fetched[k])) => Returned
      /\ Returned =>
           \/ /\ ~Failed(fetched[Len(fetched)])
              /\ result.val = MarketFrame(fetched[Len(fetched)].ticker)
           \/ /\ result.val = NoneValue
              /\ Len(fetched) = 9
              /\ \A k \in 1..9 : Failed(fetched[k])

\* C26: fetch_market_index tries ^NSEI, ^BSESN, NIFTYBEES.NS in that order with
\* at most 3 attempts each, goes to the next ticker only after 3 failed attempts
\* (None, empty frame or exception), returns the first non-empty result without
\* a further fetch, returns None only after all 9 attempts failed, and every
\* call returns
C26_FetchTriesNineTimesAndReturns ==
    /\ []FetchProtocol
    /\ FetchCall ~> Returned

\* C26 witness: the call returned the third ticker's data after failures of
\* every kind
C26_Witness ==
    /\ Returned
    /\ result.val = MarketFrame("NIFTYBEES.NS")
    /\ \A o \in {"None", "empty", "raise"} :
         \E k \in 1..Len(call.fetched) : call.fetched[k].outcome = o

\* C27: fetch_market_index fetches the index named by index_symbol: the first
\* ticker it requests is index_symbol, and data returned at the first attempt
\* are those of index_symbol
C27_FetchesRequestedIndex ==
    (FetchCall /\ Len(call.fetched) >= 1) =>
      /\ call.fetched[1].ticker = call.index_symbol
      /\ (Returned /\ Len(call.fetched) = 1) => result.val = MarketFrame(call.index_symbol)

(***************************************************************************)
(* Claims about the two volatilities of a profile                          *)
(***************************************************************************)
\* the profile was computed from the series, not taken from the defaults
ComputedProfile == AllCall /\ Length(price_history) >= 2

\* the square of a volatility
Squared(v) == IF v.k = "sqrt" THEN Q(v.n, v.d) ELSE RatMul(v, v)

\* every simple return of the series, in units of 1/RetScale
AllReturns(prices) == Values(dropna(pct_change(prices)))

\* the sample variance (ddof = 1) of every return of the series
FullVariance(prices) ==
    Q(CrossDev(AllReturns(prices), AllReturns(prices)),
      Len(AllReturns(prices)) * (Len(AllReturns(prices)) - 1) * RetScale * RetScale)

\* C28: in every computed profile volatility_60d and volatility_252d come from
\* the standard deviation of the returns of the whole price history and differ
\* by the annualization factor only: volatility_252d^2 is 252 times the
\* variance of all returns and volatility_60d^2 * 252 = volatility_252d^2 * 60,
\* however many observations precede the most recent 60; with one return the
\* standard deviation is undefined and both are NaN
C28_BothVolatilitiesFromFullHistory ==
    ComputedProfile =>
      LET v60  == Profile.volatility_60d
          v252 == Profile.volatility_252d
      IN  IF Length(price_history) = 2
          THEN IsNaN(v60) /\ IsNaN(v252)
          ELSE /\ IsFinite(v60) /\ IsFinite(v252)
               /\ Squared(v252) = RatMul(Q(252, 1), FullVariance(price_history))
               /\ Squared(v60) = RatMul(Q(60, 1), FullVariance(price_history))
               /\ RatMul(Squared(v60), Q(252, 60)) = Squared(v252)

\* C28 witness: a profile of a history with more than 60 returns whose last 60
\* returns have another variance than all of them
C28_Witness ==
    /\ ComputedProfile
    /\ Len(AllReturns(price_history)) > 60
    /\ LET last == IlocTail(AllReturns(price_history), 60)
       IN  Q(CrossDev(last, last), 60 * 59 * RetScale * RetScale)
             # FullVariance(price_history)
    /\ Profile.volatility_60d.k = "sqrt"

(***************************************************************************)
(* Claims about calculate_sortino_ratio                                    *)
(***************************************************************************)
SortinoCall == call.op = "calculate_sortino_ratio"

\* the positions of the negative returns
NegativeReturns == {i \in 1..Size(returns) : returns.v[i] < 0}

SummaryCall == call.op = "risk_profile_summary"

\* the profile has the default volatility 0.25 and the default beta 1.0
DefaultRisk(risk_metrics) ==
    /\ GetDefault(risk_metrics, "volatility_252d", Q(25, 100)) = Q(25, 100)
    /\ GetDefault(risk_metrics, "beta", One) = One

\* C30: risk_profile_summary gives every profile one volatility label and one
\* beta label, and the default profile (volatility 0.25, beta 1.0) the labels
\* 'Moderate Volatility' and 'Market-Aligned'
C30_DefaultProfileIsModerate ==
    SummaryCall =>
      /\ result.val.vol_profile
           \in {"Low Volatility", "Moderate Volatility", "High Volatility"}
      /\ result.val.beta_profile \in {"Defensive", "Aggressive", "Market-Aligned"}
      /\ DefaultRisk(call.risk_metrics) =>
           /\ result.val.vol_profile = "Moderate Volatility"
           /\ result.val.beta_profile = "Market-Aligned"

====
